---- MODULE Spec2Model ----
(***************************************************************************)
(* BrassRadar (src/brassradar.py): the listing ingestion pass              *)
(* (fetch_and_store), the SQLite store (items, price_history, watchlist)   *)
(* and the watch-check pass (check_watchlist).                             *)
(*                                                                         *)
(* The store is kept twice: the committed tables (items, price_history,    *)
(* watchlist) and the open connection's view of them (con), which a pass   *)
(* writes and which replaces the committed tables at con.commit().  A pass *)
(* that ends in an exception or a crash leaves the committed tables alone  *)
(* (sqlite3's "with con:" rolls back).                                     *)
(***************************************************************************)
EXTENDS Integers, Sequences, FiniteSets, TLC

\* ------------------------------------------------------------- bounds
MaxClock == 1        \* utc_now() takes the values 0..MaxClock
MaxPasses == 2       \* ingestion passes started, at most
MaxNotify == 2       \* notify_ended invocations counted per item, at most
MaxWords == 3        \* words in a title given to relevant on its own, at most

\* ------------------------------------------------------ program constants
WINDOW_MINUTES == 15
MAX_RESULTS_PER_QUERY == 600
PAGE_LIMIT == 100

SEARCH_TERMS == <<"Micro-Metakit", "Micro-Feinmechanik">>
MARKETPLACES == <<"EBAY_US">>

\* ------------------------------------------------------------- values
\* Python's None / a present value
None == <<>>
Some(x) == <<x>>

ItemIds == {"v1|111", "v1|222", "v1|333"}

\* item titles, as sequences of characters
TitleLok == <<"B", "r", "a", "s", "s", " ", "L", "o", "k">>
TitleTool == <<"L", "o", "k", " ", "T", "o", "o", "l">>
TitleNone == <<"K", "i", "t">>
Titles == {TitleLok, TitleTool, TitleNone, <<>>}

\* end_time strings: an ISO instant (minutes on the model's clock) or text
\* datetime.fromisoformat rejects
\* aware: the text carries a UTC offset ("Z", "+00:00")
Iso(t) == [parseable |-> TRUE, aware |-> TRUE, t |-> t]
Naive(t) == [parseable |-> TRUE, aware |-> FALSE, t |-> t]
BadTime == [parseable |-> FALSE, aware |-> FALSE, t |-> 0]
EndInstants == {1, WINDOW_MINUTES + 1}
EndStrings == {Iso(t) : t \in EndInstants} \cup {Naive(1), BadTime}

\* currency codes as the marketplace writes them; CHF is not in the rate table
USD == <<"U", "S", "D">>
EUR == <<"E", "U", "R">>
GBP == <<"G", "B", "P">>
AUD == <<"A", "U", "D">>
Eur == <<"e", "u", "r">>
CHF == <<"C", "H", "F">>
\* a currentBidPrice
Money == {[value |-> 610, currency |-> USD]}
\* a "price" or a "shippingCost" object: either key can be missing
Prices ==
    [value : {None, Some(20), Some(500)}, currency : {None, Some(Eur), Some(EUR), Some(CHF)}]
Terms == {SEARCH_TERMS[k] : k \in 1..Len(SEARCH_TERMS)}

VARIABLES
    market,          \* the marketplace's listings: what a search returns for an id
    clock,           \* the wall clock utc_now() reads
    items,           \* committed table items
    price_history,   \* committed table price_history
    watchlist,       \* committed table watchlist
    con,             \* the open connection's view of the three tables
    pc,              \* where the running pass is
    queries,         \* fetch_and_store: (marketplace, term) pairs still to search
    pending,         \* fetch_and_store: items of the current search still to come
    seen,            \* fetch_and_store: seen
    rows,            \* check_watchlist: rows still to check
    notified,        \* notify_ended invocations, per item id
    passlog,         \* what the running pass met, per item id
    outcome,         \* how the last pass ended
    npass,           \* ingestion passes started
    upserts,         \* upsert_item calls whose transaction committed, per item id
    conUpserts,      \* the same, the open transaction's calls included
    done,            \* the seen sets of the ingestion passes that committed
    pg,              \* paginate_search: the call in progress
    peer,            \* the pass of a second browser session, while it is not stepping
    rel              \* relevant: the call in progress

\* the state of calls that are followed on their own, outside the passes
aux == <<pg, peer, rel>>

vars == <<market, clock, items, price_history, watchlist, con, pc, queries, pending, seen,
          rows, notified, passlog, outcome, npass, upserts, conUpserts, done, pg, peer,
          rel>>

\* ------------------------------------------------------------- helpers
utc_now == clock

NoCon == [items |-> {}, price_history |-> {}, watchlist |-> {}]
Store == [items |-> items, price_history |-> price_history, watchlist |-> watchlist]

HasRow(table, id) == \E r \in table : r.item_id = id
RowOf(table, id) == CHOOSE r \in table : r.item_id = id

\* str.lower()
UpperCase == <<"A", "B", "C", "D", "E", "F", "G", "H", "I", "J", "K", "L", "M",
               "N", "O", "P", "Q", "R", "S", "T", "U", "V", "W", "X", "Y", "Z">>
LowerCase == <<"a", "b", "c", "d", "e", "f", "g", "h", "i", "j", "k", "l", "m",
               "n", "o", "p", "q", "r", "s", "t", "u", "v", "w", "x", "y", "z">>
LowerChar(ch) ==
    IF \E i \in 1..Len(UpperCase) : UpperCase[i] = ch
    THEN LowerCase[CHOOSE i \in 1..Len(UpperCase) : UpperCase[i] = ch]
    ELSE ch
lower(s) == [i \in 1..Len(s) |-> LowerChar(s[i])]

\* str.upper()
UpperChar(ch) ==
    IF \E i \in 1..Len(LowerCase) : LowerCase[i] = ch
    THEN UpperCase[CHOOSE i \in 1..Len(LowerCase) : LowerCase[i] = ch]
    ELSE ch
upper(s) == [i \in 1..Len(s) |-> UpperChar(s[i])]

\* FX, units per USD, in hundredths
FX == [c \in {USD, EUR, GBP, AUD} |->
         IF c = USD THEN 100 ELSE IF c = EUR THEN 92 ELSE IF c = GBP THEN 78 ELSE 148]

\* round(p / q, 2) counted in hundredths (Python rounds a tie of the float quotient
\* to even; the amounts of the model give no tie)
Round2(p, q) == (2 * 100 * p + q) \div (2 * q)

\* the unknown currency valued at zero
to_usd_Zero(value, ccy) ==
    IF value = None \/ ccy = None
    THEN None
    ELSE LET c == upper(ccy[1])
         IN  IF c \notin DOMAIN FX THEN Some(0) ELSE Some(Round2(value[1] * 100, FX[c]))

\* to_usd: amounts are whole units, the result is in hundredths of a dollar
to_usd(value, ccy) ==
    IF value = None \/ ccy = None
    THEN None
    ELSE LET c == upper(ccy[1])
         IN  IF c \notin DOMAIN FX THEN None ELSE Some(Round2(value[1] * 100, FX[c]))

\* Python's "d in t" on strings: d is a substring of t
Contains(t, d) ==
    \E k \in 0..(Len(t) - Len(d)) : \A i \in 1..Len(d) : t[k + i] = d[i]

ALLOW == <<
    <<"b", "r", "a", "s", "s">>,
    <<"l", "o", "k">>,
    <<"l", "o", "k", "o", "m", "o", "t", "i", "v", "e">>,
    <<"l", "o", "c", "o", "m", "o", "t", "i", "v", "e">>,
    <<"z", "u", "g">>,
    <<"t", "r", "a", "i", "n">>,
    <<"d", "a", "m", "p", "f", "l", "o", "k">>,
    <<"d", "i", "e", "s", "e", "l">>,
    <<"h", "o">>,
    <<"h", "0">>,
    <<"h", "-", "o">>,
    <<"m", "o", "d", "e", "l">>,
    <<"m", "o", "d", "e", "l", "l">>,
    <<"b", "a", "h", "n">> >>
DENY == <<
    <<"w", "i", "h", "a">>,
    <<"s", "c", "h", "r", "a", "u", "b", "e", "n", "d", "r", "e", "h", "e", "r">>,
    <<"s", "c", "r", "e", "w", "d", "r", "i", "v", "e", "r">>,
    <<"b", "i", "t", " ", "s", "e", "t">>,
    <<"w", "e", "r", "k", "z", "e", "u", "g">>,
    <<"t", "o", "o", "l">>,
    <<"s", "p", "a", "n", "n", "e", "r">>,
    <<"p", "l", "i", "e", "r", "s">> >>

\* an allow term answers before the deny list is looked at
relevant_AllowFirst(title) ==
    LET t == lower(title)
    IN  IF \E k \in 1..Len(ALLOW) : Contains(t, ALLOW[k])
        THEN TRUE
        ELSE FALSE

\* relevant; an empty title and a missing one (None) are both <<>>
relevant(title) ==
    LET t == lower(title)
    IN  IF \E k \in 1..Len(DENY) : Contains(t, DENY[k])
        THEN FALSE
        ELSE \E k \in 1..Len(ALLOW) : Contains(t, ALLOW[k])
IsRelevant == [t \in Titles |-> relevant(t)]

\* titles for calls of relevant on its own: up to MaxWords words, a space between
Words == {<<"L", "O", "K">>, <<"T", "o", "o", "l">>, <<"b", "i", "t">>,
          <<"S", "E", "T">>, <<"K", "i", "t">>, <<"Z", "u", "g">>}
RECURSIVE Join(_)
Join(ws) ==
    IF ws = <<>> THEN <<>>
    ELSE IF Len(ws) = 1 THEN ws[1]
    ELSE ws[1] \o <<" ">> \o Join(Tail(ws))
WordTitles == {Join(ws) : ws \in UNION {[1..n -> Words] : n \in 0..MaxWords}}

\* no call in progress
NoRelevant == [state |-> "off", title |-> <<>>, result |-> FALSE]

\* relevant(title) returns
RelevantReturn ==
    /\ rel.state = "call"
    /\ rel' = [rel EXCEPT !.state = "returned", !.result = relevant(rel.title)]
    /\ UNCHANGED <<pg, peer, market, clock, items, price_history, watchlist, con, pc,
                   queries, pending, seen, rows, notified, passlog, outcome, npass,
                   upserts, conUpserts, done>>

\* ---------------------------------------------------------------- DB
\* INSERT OR REPLACE INTO items: the conflicting row is replaced whole
UpsertListing_Replace(table, row) ==
    {r \in table : r.item_id # row.item_id} \cup {row}

\* status left out of the columns the conflict clause updates
UpsertListing_KeepsStatus(table, row) ==
    IF HasRow(table, row.item_id)
    THEN {IF r.item_id = row.item_id
          THEN [row EXCEPT !.date_found = r.date_found, !.status = r.status]
          ELSE r : r \in table}
    ELSE table \cup {row}

\* INSERT ... ON CONFLICT(item_id) DO UPDATE SET <every column but item_id, date_found>
UpsertListing(table, row) ==
    IF HasRow(table, row.item_id)
    THEN {IF r.item_id = row.item_id
          THEN [row EXCEPT !.date_found = r.date_found]
          ELSE r : r \in table}
    ELSE table \cup {row}

\* price_history keyed by item_id alone: the item's earlier rows are replaced
InsertOrReplace_ById(table, obs) ==
    {p \in table : p.item_id # obs.item_id} \cup {obs}

\* INSERT OR REPLACE INTO price_history, PRIMARY KEY (item_id, observed_at)
InsertOrReplace(table, obs) ==
    {p \in table : ~(p.item_id = obs.item_id /\ p.observed_at = obs.observed_at)}
        \cup {obs}

upsert_item(c, row) ==
    [c EXCEPT
        !.items = UpsertListing(c.items, row),
        !.price_history = InsertOrReplace(c.price_history,
            [item_id |-> row.item_id, observed_at |-> utc_now,
             price_value |-> row.price_value, price_ccy |-> row.price_ccy,
             current_bid_value |-> row.current_bid_value,
             current_bid_ccy |-> row.current_bid_ccy])]

\* the sweep's UPDATE writing the wrong date column
mark_ended_Stamps(c, active_ids) ==
    [c EXCEPT !.items =
        {IF r.status = "ACTIVE" /\ r.item_id \notin active_ids
         THEN [r EXCEPT !.status = "ENDED", !.date_found = utc_now]
         ELSE r : r \in c.items}]

mark_ended(c, active_ids) ==
    [c EXCEPT !.items =
        {IF r.status = "ACTIVE" /\ r.item_id \notin active_ids
         THEN [r EXCEPT !.status = "ENDED", !.date_updated = utc_now]
         ELSE r : r \in c.items}]

\* INSERT OR REPLACE INTO watchlist
add_to_watchlist_Replace(table, item_id, marketplace, end_time) ==
    {w \in table : w.item_id # item_id}
        \cup {[item_id |-> item_id, marketplace |-> marketplace,
               end_time |-> end_time, added_at |-> utc_now,
               last_checked |-> None, status |-> "WATCHING",
               final_price |-> None, final_currency |-> None]}

add_to_watchlist(table, item_id, marketplace, end_time) ==
    IF HasRow(table, item_id)
    THEN table
    ELSE table \cup {[item_id |-> item_id, marketplace |-> marketplace,
                      end_time |-> end_time, added_at |-> utc_now,
                      last_checked |-> None, status |-> "WATCHING",
                      final_price |-> None, final_currency |-> None]}

\* the entry's new status written to the item's Listing as well
UpdateWatch_EndsListing(c, id, set) ==
    [c EXCEPT !.watchlist =
        {IF w.item_id = id
         THEN [col \in DOMAIN w |-> IF col \in DOMAIN set THEN set[col] ELSE w[col]]
         ELSE w : w \in c.watchlist},
              !.items =
        {IF r.item_id = id /\ "status" \in DOMAIN set
         THEN [r EXCEPT !.status = set.status]
         ELSE r : r \in c.items}]

\* the UPDATE without its WHERE clause
UpdateWatch_NoWhere(c, id, set) ==
    [c EXCEPT !.watchlist =
        {[col \in DOMAIN w |-> IF col \in DOMAIN set THEN set[col] ELSE w[col]] :
            w \in c.watchlist}]

\* UPDATE watchlist SET ... WHERE item_id=?
UpdateWatch(c, id, set) ==
    [c EXCEPT !.watchlist =
        {IF w.item_id = id
         THEN [col \in DOMAIN w |-> IF col \in DOMAIN set THEN set[col] ELSE w[col]]
         ELSE w : w \in c.watchlist}]

\* ------------------------------------------------------- marketplace
\* a listing of the marketplace: what every search page says of it, the search
\* terms that find it, and the end date its detail carries
Listings ==
    [title : Titles, price : Prices, shippingCost : Prices, auction : BOOLEAN,
     terms : SUBSET Terms,
     itemEndDate : {None} \cup {Some(e) : e \in EndStrings}]

\* one item summary of a search page
Summary(id) ==
    [itemId |-> id, title |-> market[id].title, price |-> market[id].price,
     shippingCost |-> market[id].shippingCost,
     auction |-> market[id].auction]

\* the listings a search for term can return
Matching(term) == {i \in ItemIds : term \in market[i].terms}

\* what get_item_detail returns: the item's JSON on status 200, {} on any other
\* status; requests.get raises on a timeout or a transport error
EmptyJson == [currentBidPrice |-> None, itemEndDate |-> None]
DetailJson(id) ==
    {[currentBidPrice |-> b, itemEndDate |-> market[id].itemEndDate] :
        b \in {None} \cup {Some(m) : m \in Money}}
DetailReplies(id) ==
    {[kind |-> "raise", json |-> EmptyJson], [kind |-> "non200", json |-> EmptyJson]}
        \cup {[kind |-> "ok", json |-> j] : j \in DetailJson(id)}
NoDetail == [kind |-> "none", json |-> EmptyJson]

\* what the running pass met at an item: whether its end was beyond the lookahead
\* window when its turn came, the detail reply it got, the notify_ended calls made
\* undelivered: a push or an e-mail of notify_ended failed
NoLog == [far |-> FALSE, detail |-> "unseen", notices |-> 0, undelivered |-> FALSE]
Log(far, kind, n) == [far |-> far, detail |-> kind, notices |-> n, undelivered |-> FALSE]
EmptyLog == [i \in ItemIds |-> NoLog]
Zero == [i \in ItemIds |-> 0]

\* ---------------------------------------------------------- sessions
\* Streamlit runs the script of every browser session in a thread of its own; the
\* model steps one session and keeps the other in peer
NoPeer == [pc |-> "idle", con |-> NoCon, queries |-> <<>>, pending |-> {}, seen |-> {},
           rows |-> {}, passlog |-> EmptyLog, conUpserts |-> Zero, dirty |-> FALSE]

\* the stepping session, as it is kept while the other one steps; dirty: its
\* connection has written and holds SQLite's write lock until commit or rollback
\* (a transaction whose writes changed nothing counts as not having written)
Session ==
    [pc |-> pc, con |-> con, queries |-> queries, pending |-> pending, seen |-> seen,
     rows |-> rows, passlog |-> passlog, conUpserts |-> conUpserts,
     dirty |-> pc # "idle" /\ (con # Store \/ conUpserts # upserts)]

\* a write by this session's connection while the other connection holds the
\* write lock waits (sqlite3.connect's timeout); the raise at the end of the wait
\* is FetchCrash, or the "write" fault of CheckEntry
WriteLock(c) == c # con => ~peer.dirty

\* the other session steps next; a connection that has not written reads the
\* store as last committed
Switch ==
    /\ pc # "idle" \/ peer.pc # "idle"
    /\ peer' = Session
    /\ pc' = peer.pc
    /\ con' = IF peer.pc = "idle" THEN NoCon
              ELSE IF peer.dirty THEN peer.con ELSE Store
    /\ conUpserts' = IF peer.dirty THEN peer.conUpserts ELSE upserts
    /\ queries' = peer.queries
    /\ pending' = peer.pending
    /\ seen' = peer.seen
    /\ rows' = peer.rows
    /\ passlog' = peer.passlog
    /\ UNCHANGED <<pg, rel, market, clock, items, price_history, watchlist, notified,
                   outcome, npass, upserts, done>>

\* ------------------------------------------------------------- Fetch
FetchStates == {"search", "items", "sweep", "commit"}

AllQueries ==
    [k \in 1..(Len(MARKETPLACES) * Len(SEARCH_TERMS)) |->
        [mp |-> MARKETPLACES[((k - 1) \div Len(SEARCH_TERMS)) + 1],
         term |-> SEARCH_TERMS[((k - 1) % Len(SEARCH_TERMS)) + 1]]]

\* the row fetch_and_store builds from a search record and its detail
ListingRow(mp, it, detail) ==
    LET cb == detail.currentBidPrice
        bid_v == IF cb # None THEN Some(cb[1].value) ELSE None
        bid_c == IF cb # None THEN Some(cb[1].currency) ELSE None
        native_v == IF bid_v # None THEN bid_v ELSE it.price.value
        native_c == IF bid_c # None THEN bid_c ELSE it.price.currency
    IN  [item_id |-> it.itemId,
         title |-> it.title,
         marketplace |-> mp,
         is_auction |-> it.auction,
         price_value |-> native_v,
         price_ccy |-> native_c,
         ship_value |-> it.shippingCost.value,
         ship_ccy |-> it.shippingCost.currency,
         current_bid_value |-> bid_v,
         current_bid_ccy |-> bid_c,
         end_time |-> detail.itemEndDate,
         price_usd |-> to_usd(native_v, native_c),
         ship_usd |-> to_usd(it.shippingCost.value, it.shippingCost.currency),
         status |-> "ACTIVE",
         date_found |-> utc_now,
         date_updated |-> utc_now]

\* the with block is left by an exception: the transaction is rolled back
Rollback(how) ==
    /\ con' = NoCon
    /\ conUpserts' = upserts
    /\ pc' = "idle"
    /\ outcome' = how
    /\ queries' = <<>>
    /\ pending' = {}
    /\ seen' = {}
    /\ rows' = {}
    /\ UNCHANGED <<items, price_history, watchlist, upserts>>

\* con.commit()
Commit(how) ==
    /\ items' = con.items
    /\ price_history' = con.price_history
    /\ watchlist' = con.watchlist
    /\ upserts' = conUpserts
    /\ conUpserts' = conUpserts
    /\ con' = NoCon
    /\ pc' = "idle"
    /\ outcome' = how
    /\ queries' = <<>>
    /\ pending' = {}
    /\ seen' = {}
    /\ rows' = {}

\* mark_ended called inside the loop over the searches, after each search's items
Advance_SweepPerSearch(left, qs) ==
    IF left # {} THEN /\ pc' = "items"
                      /\ pending' = left
                      /\ queries' = qs
    ELSE /\ pc' = "sweep"
         /\ pending' = {}
         /\ queries' = Tail(qs)

\* the loops of fetch_and_store move on: the next item, the next search, the sweep
Advance(left, qs) ==
    IF left # {} THEN /\ pc' = "items"
                      /\ pending' = left
                      /\ queries' = qs
    ELSE IF Len(qs) > 1 THEN /\ pc' = "search"
                             /\ pending' = {}
                             /\ queries' = Tail(qs)
    ELSE /\ pc' = "sweep"
         /\ pending' = {}
         /\ queries' = <<>>

FetchBegin ==
    /\ pc = "idle"
    /\ npass < MaxPasses
    /\ npass' = npass + 1
    /\ con' = Store
    /\ conUpserts' = upserts
    /\ pc' = "search"
    /\ queries' = AllQueries
    /\ pending' = {}
    /\ seen' = {}
    /\ passlog' = EmptyLog
    /\ outcome' = "running"
    /\ UNCHANGED <<aux, market, clock, items, price_history, watchlist, rows, notified,
                   upserts, done>>

\* paginate_search returns the listings found
FetchSearch(found) ==
    /\ pc = "search"
    /\ Advance(found, queries)
    /\ UNCHANGED <<aux, market, clock, items, price_history, watchlist, con, seen, rows,
                   notified, passlog, outcome, npass, upserts, conUpserts, done>>

\* search_page raises (raise_for_status, a timeout): the pass ends there
FetchSearchFails ==
    /\ pc = "search"
    /\ Rollback("aborted")
    /\ UNCHANGED <<aux, market, clock, notified, passlog, npass, done>>

\* the loop body for the next item of the search, with the detail reply it gets
FetchItem(it, d) ==
    /\ pc = "items"
    /\ it.itemId \in pending
    /\ IF ~IsRelevant[it.title]
       THEN /\ d = NoDetail
            /\ Advance(pending \ {it.itemId}, queries)
            /\ UNCHANGED <<con, seen, passlog, outcome, conUpserts, items,
                           price_history, watchlist, upserts, rows>>
       ELSE IF it.auction /\ d.kind = "raise"
       THEN /\ Rollback("aborted")
            /\ passlog' = [passlog EXCEPT ![it.itemId] = Log(FALSE, d.kind, 0)]
       ELSE /\ it.auction <=> d # NoDetail
            /\ ~peer.dirty
            /\ con' = upsert_item(con, ListingRow(queries[1].mp, it, d.json))
            /\ seen' = seen \cup {it.itemId}
            /\ conUpserts' = [conUpserts EXCEPT ![it.itemId] = @ + 1]
            /\ passlog' = [passlog EXCEPT ![it.itemId] = Log(FALSE, d.kind, 0)]
            /\ Advance(pending \ {it.itemId}, queries)
            /\ UNCHANGED <<outcome, items, price_history, watchlist, upserts, rows>>
    /\ UNCHANGED <<aux, market, clock, notified, npass, done>>

FetchSweep ==
    /\ pc = "sweep"
    /\ WriteLock(mark_ended(con, seen))
    /\ con' = mark_ended(con, seen)
    /\ pc' = "commit"
    /\ UNCHANGED <<aux, market, clock, items, price_history, watchlist, queries, pending,
                   seen, rows, notified, passlog, outcome, npass, upserts, conUpserts, done>>

FetchCommit ==
    /\ pc = "commit"
    /\ Commit("committed")
    /\ passlog' = EmptyLog
    /\ done' = Append(done, seen)
    /\ UNCHANGED <<aux, market, clock, notified, npass>>

\* the pass is left before its commit takes effect: the process is stopped, or
\* con.commit() raises
FetchCrash ==
    /\ pc \in FetchStates
    /\ Rollback("aborted")
    /\ passlog' = EmptyLog
    /\ UNCHANGED <<aux, market, clock, notified, npass, done>>

\* ------------------------------------------------------------- Watch
\* the window test turned round
WatchGate_Reversed(end_time, now, window_minutes) ==
    LET end_dt == IF end_time # None /\ end_time[1].parseable
                  THEN Some(end_time[1]) ELSE None
    IN  IF end_dt = None THEN "poll"
        ELSE IF ~end_dt[1].aware THEN "error"
        ELSE IF end_dt[1].t < now + window_minutes THEN "skip"
        ELSE "poll"

\* check_watchlist decides whether to leave an entry alone this pass: "skip" when
\* its end is beyond the lookahead window, "error" when the comparison raises (an
\* end time without offset against an aware now), "poll" otherwise
WatchGate(end_time, now, window_minutes) ==
    LET end_dt == IF end_time # None /\ end_time[1].parseable
                  THEN Some(end_time[1]) ELSE None
    IN  IF end_dt = None THEN "poll"
        ELSE IF ~end_dt[1].aware THEN "error"
        ELSE IF end_dt[1].t > now + window_minutes THEN "skip"
        ELSE "poll"

\* the final price taken from the live detail instead of the stored Listing
CheckDetail_Live(c, item_id, detail) ==
    LET cb == detail.currentBidPrice
        bid_v == IF cb # None THEN Some(cb[1].value) ELSE None
    IN  IF bid_v = None
        THEN IF HasRow(c.items, item_id)
             THEN LET row == RowOf(c.items, item_id)
                  IN  IF row.status = "ENDED" \/ row.current_bid_value # None
                      THEN [con |-> UpdateWatch(c, item_id,
                                [status |-> "ENDED", final_price |-> bid_v,
                                 final_currency |-> None,
                                 last_checked |-> Some(utc_now)]),
                            notify |-> TRUE]
                      ELSE [con |-> c, notify |-> FALSE]
             ELSE [con |-> UpdateWatch(c, item_id,
                       [status |-> "ENDED", last_checked |-> Some(utc_now)]),
                   notify |-> FALSE]
        ELSE [con |-> UpdateWatch(c, item_id,
                  [last_checked |-> Some(utc_now)]),
              notify |-> FALSE]

\* an entry without a Listing row left as it is
CheckDetail_KeepsUnlisted(c, item_id, detail) ==
    LET cb == detail.currentBidPrice
        bid_v == IF cb # None THEN Some(cb[1].value) ELSE None
    IN  IF bid_v = None
        THEN IF HasRow(c.items, item_id)
             THEN LET row == RowOf(c.items, item_id)
                  IN  IF row.status = "ENDED" \/ row.current_bid_value # None
                      THEN [con |-> UpdateWatch(c, item_id,
                                [status |-> "ENDED", final_price |-> row.current_bid_value,
                                 final_currency |-> row.current_bid_ccy,
                                 last_checked |-> Some(utc_now)]),
                            notify |-> TRUE]
                      ELSE [con |-> c, notify |-> FALSE]
             ELSE [con |-> c, notify |-> FALSE]
        ELSE [con |-> UpdateWatch(c, item_id,
                  [last_checked |-> Some(utc_now)]),
              notify |-> FALSE]

\* the body of the loop once the detail is there
CheckDetail(c, item_id, detail) ==
    LET cb == detail.currentBidPrice
        bid_v == IF cb # None THEN Some(cb[1].value) ELSE None
    IN  IF bid_v = None
        THEN IF HasRow(c.items, item_id)
             THEN LET row == RowOf(c.items, item_id)
                  IN  IF row.status = "ENDED" \/ row.current_bid_value # None
                      THEN [con |-> UpdateWatch(c, item_id,
                                [status |-> "ENDED", final_price |-> row.current_bid_value,
                                 final_currency |-> row.current_bid_ccy,
                                 last_checked |-> Some(utc_now)]),
                            notify |-> TRUE]
                      ELSE [con |-> c, notify |-> FALSE]
             ELSE [con |-> UpdateWatch(c, item_id,
                       [status |-> "ENDED", last_checked |-> Some(utc_now)]),
                   notify |-> FALSE]
        ELSE [con |-> UpdateWatch(c, item_id,
                  [last_checked |-> Some(utc_now)]),
              notify |-> FALSE]

\* the faults notify_ended can meet: "notify" in an st.secrets lookup, "push" in
\* requests.post to ntfy, "mail" in the SMTP session
NotifyFaults == {"notify", "push", "mail"}

\* the delivery failures passed on to the caller
notify_ended_Propagates(x) == x \in NotifyFaults

\* whether notify_ended raises: the push and the SMTP session are each inside
\* try/except Exception: pass, the st.secrets lookups are not
notify_ended(x) == x = "notify"

\* the statements of the loop body that run after the detail is there and can
\* raise: the SELECT on items ("read"), the UPDATE of the entry ("write"), the
\* notify_ended call ("notify", st.secrets lookups outside its try blocks)
CheckSteps(c, item_id, detail) ==
    IF detail.currentBidPrice = None
    THEN {"read"} \cup
         (IF HasRow(c.items, item_id)
          THEN IF RowOf(c.items, item_id).status = "ENDED"
                    \/ RowOf(c.items, item_id).current_bid_value # None
               THEN {"write", "notify"}
               ELSE {}
          ELSE {"write"})
    ELSE {"write"}

CheckBegin ==
    /\ pc = "idle"
    /\ \A i \in ItemIds : notified[i] < MaxNotify
    /\ con' = Store
    /\ rows' = {[item_id |-> w.item_id, marketplace |-> w.marketplace,
                 end_time |-> w.end_time, status |-> w.status] :
                    w \in {x \in watchlist : x.status = "WATCHING"}}
    /\ pc' = "check"
    /\ passlog' = EmptyLog
    /\ outcome' = "running"
    /\ UNCHANGED <<aux, market, clock, items, price_history, watchlist, queries, pending,
                   seen, notified, npass, upserts, conUpserts, done>>

\* the loop body for one selected row, with the detail reply it gets and the
\* statement x that raises, if any; "except Exception: continue" ends the body
CheckEntry(e, d, x) ==
    LET gate == WatchGate(e.end_time, clock, WINDOW_MINUTES)
        far == e.end_time # None /\ e.end_time[1].parseable
                 /\ e.end_time[1].t > clock + WINDOW_MINUTES
    IN
    /\ pc = "check"
    /\ e \in rows
    /\ rows' = rows \ {e}
    /\ IF gate # "poll"
       THEN /\ d = NoDetail
            /\ x = "none"
            /\ passlog' = [passlog EXCEPT ![e.item_id] =
                               Log(far, IF gate = "error" THEN "gate_raise" ELSE "nofetch",
                                   @.notices)]
            /\ UNCHANGED <<con, notified>>
       ELSE /\ d # NoDetail
            /\ IF d.kind = "raise"
               THEN /\ x = "none"
                    /\ passlog' = [passlog EXCEPT ![e.item_id] =
                                       Log(far, d.kind, @.notices)]
                    /\ UNCHANGED <<con, notified>>
               ELSE IF x \in {"read", "write"}
               THEN /\ x \in CheckSteps(con, e.item_id, d.json)
                    /\ passlog' = [passlog EXCEPT ![e.item_id] =
                                       Log(far, IF x = "read" THEN "read_raise"
                                                ELSE "write_raise", @.notices)]
                    /\ UNCHANGED <<con, notified>>
               ELSE IF x \in NotifyFaults
               THEN /\ "notify" \in CheckSteps(con, e.item_id, d.json)
                    /\ WriteLock(CheckDetail(con, e.item_id, d.json).con)
                    /\ con' = CheckDetail(con, e.item_id, d.json).con
                    /\ notified' = [notified EXCEPT ![e.item_id] = @ + 1]
                    /\ passlog' = [passlog EXCEPT ![e.item_id] =
                           [Log(far, IF notify_ended(x) THEN "notify_raise"
                                     ELSE IF d.kind = "non200" THEN d.kind ELSE "nobid",
                                @.notices + 1)
                               EXCEPT !.undelivered = x # "notify"]]
               ELSE LET r == CheckDetail(con, e.item_id, d.json)
                        n == IF r.notify THEN 1 ELSE 0
                        kind == IF d.kind = "non200" THEN d.kind
                                ELSE IF d.json.currentBidPrice = None THEN "nobid"
                                ELSE "bid"
                    IN  /\ WriteLock(r.con)
                        /\ con' = r.con
                        /\ notified' = [notified EXCEPT ![e.item_id] = @ + n]
                        /\ passlog' = [passlog EXCEPT ![e.item_id] =
                                           Log(far, kind, @.notices + n)]
    /\ UNCHANGED <<aux, market, clock, items, price_history, watchlist, pc, queries, pending,
                   seen, outcome, npass, upserts, conUpserts, done>>

CheckCommit ==
    /\ pc = "check"
    /\ rows = {}
    /\ Commit("committed")
    /\ passlog' = EmptyLog
    /\ UNCHANGED <<aux, market, clock, notified, npass, done>>

\* the pass is left before its commit takes effect: the process is stopped, or
\* con.commit() raises
CheckCrash ==
    /\ pc = "check"
    /\ Rollback("aborted")
    /\ passlog' = EmptyLog
    /\ UNCHANGED <<aux, market, clock, notified, npass, done>>

\* add_to_watchlist for a stored listing, with the listing's marketplace and
\* end_time, by a caller whose transaction commits
AddToWatchlist(id) ==
    /\ pc = "idle"
    /\ HasRow(items, id)
    /\ ~peer.dirty
    /\ watchlist' = add_to_watchlist(watchlist, id, RowOf(items, id).marketplace,
                                     RowOf(items, id).end_time)
    /\ UNCHANGED <<aux, market, clock, items, price_history, con, pc, queries, pending,
                   seen, rows, notified, passlog, outcome, npass, upserts, conUpserts, done>>

\* add_to_watchlist called with an item id the items table has no row for
\* and no end_time (the watchlist table does not refer to items)
AddUnlisted(id) ==
    /\ pc = "idle"
    /\ ~HasRow(items, id)
    /\ ~peer.dirty
    /\ watchlist' = add_to_watchlist(watchlist, id, MARKETPLACES[1], None)
    /\ UNCHANGED <<aux, market, clock, items, price_history, con, pc, queries, pending,
                   seen, rows, notified, passlog, outcome, npass, upserts, conUpserts, done>>

\* the Watch button of the listing's card, enabled unless its entry is WATCHING:
\* add_to_watchlist inside "with sqlite3.connect(DB_PATH) as conw", then
\* st.experimental_rerun() inside the same block, which leaves it by the rerun
\* exception, so conw rolls the insertion back
WatchButton(id) ==
    /\ pc = "idle"
    /\ HasRow(items, id)
    /\ ~(HasRow(watchlist, id) /\ RowOf(watchlist, id).status = "WATCHING")
    /\ LET conw == add_to_watchlist(watchlist, id, RowOf(items, id).marketplace,
                                    RowOf(items, id).end_time)
       IN  watchlist' = watchlist          \* conw is never committed
    /\ outcome' = "aborted"
    /\ UNCHANGED <<aux, market, clock, items, price_history, con, pc, queries, pending,
                   seen, rows, notified, passlog, npass, upserts, conUpserts, done>>

Tick ==
    /\ clock < MaxClock
    /\ clock' = clock + 1
    /\ UNCHANGED <<aux, market, items, price_history, watchlist, con, pc, queries, pending,
                   seen, rows, notified, passlog, outcome, npass, upserts, conUpserts, done>>

\* -------------------------------------------------------- paginate_search
\* no call in progress
NoPaginate == [state |-> "off", max_results |-> 0, results |-> 0, offset |-> 0,
               page |-> 0, total |-> 0, asked |-> <<>>, returned |-> 0]

AuxIdle == pg = NoPaginate /\ peer = NoPeer /\ rel = NoRelevant

\* what the server can answer: the length of "itemSummaries" (0 also when the key
\* is missing or null) and "total" (None when missing or null)
PageLengths == {0, 50, PAGE_LIMIT, PAGE_LIMIT + 20}
Totals == {None, Some(0), Some(250), Some(100000)}
MaxResultsArgs == {0, PAGE_LIMIT, 250, MAX_RESULTS_PER_QUERY}

Min(a, b) == IF a <= b THEN a ELSE b

\* return results[:max_results]
PaginateReturn ==
    pg' = [pg EXCEPT !.state = "returned", !.returned = Min(pg.results, pg.max_results)]

\* while len(results) < max_results: search_page(..., limit=100, offset=offset)
PaginateTest ==
    /\ pg.state = "test"
    /\ IF pg.results < pg.max_results
       THEN pg' = [pg EXCEPT !.state = "request", !.asked = Append(@, pg.offset)]
       ELSE PaginateReturn
    /\ UNCHANGED <<peer, rel, market, clock, items, price_history, watchlist, con, pc,
                   queries, pending, seen, rows, notified, passlog, outcome, npass,
                   upserts, conUpserts, done>>

\* the stop on an empty page left out
PaginatePage_NoEmptyStop(n, total) ==
    /\ pg.state = "request"
    /\ LET t == IF total = None THEN 0 ELSE total[1]
           next == [pg EXCEPT !.results = @ + n, !.offset = @ + PAGE_LIMIT,
                              !.page = n, !.total = t]
       IN  IF next.offset >= t
           THEN pg' = [next EXCEPT !.state = "returned",
                                   !.returned = Min(next.results, next.max_results)]
           ELSE pg' = [next EXCEPT !.state = "test"]
    /\ UNCHANGED <<peer, rel, market, clock, items, price_history, watchlist, con, pc,
                   queries, pending, seen, rows, notified, passlog, outcome, npass,
                   upserts, conUpserts, done>>

\* the page arrives: results.extend(items); offset += 100; break on the reported
\* total reached or an empty page
PaginatePage(n, total) ==
    /\ pg.state = "request"
    /\ LET t == IF total = None THEN 0 ELSE total[1]
           next == [pg EXCEPT !.results = @ + n, !.offset = @ + PAGE_LIMIT,
                              !.page = n, !.total = t]
       IN  IF next.offset >= t \/ n = 0
           THEN pg' = [next EXCEPT !.state = "returned",
                                   !.returned = Min(next.results, next.max_results)]
           ELSE pg' = [next EXCEPT !.state = "test"]
    /\ UNCHANGED <<peer, rel, market, clock, items, price_history, watchlist, con, pc,
                   queries, pending, seen, rows, notified, passlog, outcome, npass,
                   upserts, conUpserts, done>>

\* search_page raises (raise_for_status, a timeout): paginate_search raises
PaginateRaise ==
    /\ pg.state = "request"
    /\ pg' = [pg EXCEPT !.state = "raised"]
    /\ UNCHANGED <<peer, rel, market, clock, items, price_history, watchlist, con, pc,
                   queries, pending, seen, rows, notified, passlog, outcome, npass,
                   upserts, conUpserts, done>>

\* an auction both terms find, a fixed-price listing and a listing the relevance
\* filter rejects
IngestMarket ==
    [i \in ItemIds |->
        IF i = "v1|111"
        THEN [title |-> TitleLok, price |-> [value |-> Some(500), currency |-> Some(Eur)],
              shippingCost |-> [value |-> Some(20), currency |-> None],
              auction |-> TRUE, terms |-> Terms,
              itemEndDate |-> Some(Iso(WINDOW_MINUTES + 1))]
        ELSE [title |-> IF i = "v1|222" THEN TitleLok ELSE TitleTool,
              price |-> [value |-> Some(500), currency |-> Some(CHF)],
              shippingCost |-> [value |-> None, currency |-> Some(EUR)],
              auction |-> FALSE, terms |-> {SEARCH_TERMS[2]},
              itemEndDate |-> None]]

Idle ==
    /\ clock = 0
    /\ items = {}
    /\ price_history = {}
    /\ watchlist = {}
    /\ con = NoCon
    /\ pc = "idle"
    /\ queries = <<>>
    /\ pending = {}
    /\ seen = {}
    /\ rows = {}
    /\ notified = Zero
    /\ passlog = EmptyLog
    /\ outcome = "none"
    /\ npass = 0
    /\ upserts = Zero
    /\ conUpserts = Zero
    /\ done = <<>>

Empty == AuxIdle /\ Idle

\* a call of paginate_search with each max_results
InitPaginate ==
    /\ market = IngestMarket
    /\ Idle
    /\ peer = NoPeer
    /\ rel = NoRelevant
    /\ \E m \in MaxResultsArgs : pg = [NoPaginate EXCEPT !.state = "test", !.max_results = m]

NextPaginate ==
    \/ PaginateTest
    \/ \E n \in PageLengths, total \in Totals : PaginatePage(n, total)
    \/ PaginateRaise

\* every request ends within its timeout, with a page or an exception
SpecPaginate == InitPaginate /\ [][NextPaginate]_vars /\ WF_vars(NextPaginate)

\* a call of relevant with each title
InitRelevant ==
    /\ market = IngestMarket
    /\ Idle
    /\ pg = NoPaginate
    /\ peer = NoPeer
    /\ \E t \in WordTitles : rel = [NoRelevant EXCEPT !.state = "call", !.title = t]

SpecRelevant == InitRelevant /\ [][RelevantReturn]_vars

InitIngest == market = IngestMarket /\ Empty

Fetch ==
    \/ FetchBegin
    \/ /\ pc = "search"
       /\ \E found \in SUBSET Matching(queries[1].term) : FetchSearch(found)
    \/ FetchSearchFails
    \/ \E i \in ItemIds :
          \E d \in DetailReplies(i) \cup {NoDetail} : FetchItem(Summary(i), d)
    \/ FetchSweep
    \/ FetchCommit
    \/ FetchCrash

NextIngest == Tick \/ Fetch

SpecIngest == InitIngest /\ [][NextIngest]_vars

\* an auction the first term finds, with each kind of end date, a listing no
\* search finds and a listing the relevance filter rejects
WatchMarkets ==
    {[i \in ItemIds |->
        [title |-> IF i = "v1|333" THEN TitleTool ELSE TitleLok,
         price |-> [value |-> Some(500), currency |-> Some(EUR)],
         shippingCost |-> [value |-> Some(20), currency |-> Some(EUR)],
         auction |-> i = "v1|111",
         terms |-> IF i = "v1|111" THEN {SEARCH_TERMS[1]}
                   ELSE IF i = "v1|333" THEN {SEARCH_TERMS[2]} ELSE {},
         itemEndDate |-> IF i = "v1|111" THEN e ELSE None]] :
            e \in {Some(x) : x \in EndStrings}}

Init == market \in WatchMarkets /\ Empty

Check ==
    \/ CheckBegin
    \/ \E e \in rows :
          \E d \in DetailReplies(e.item_id) \cup {NoDetail} :
              \E x \in {"none", "read", "write"} \cup NotifyFaults : CheckEntry(e, d, x)
    \/ CheckCommit
    \/ CheckCrash

Next ==
    \/ Tick
    \/ Fetch
    \/ Check
    \/ \E i \in ItemIds : AddToWatchlist(i)
    \/ \E i \in ItemIds : WatchButton(i)

Spec == Init /\ [][Next]_vars

\* The watchlist over a store an ingestion has filled: an auction and a
\* fixed-price listing, upserted at the start, then a sweep that saw the ids in s
Listed(bid, end, s) ==
    LET r1 == ListingRow(MARKETPLACES[1], Summary("v1|111"),
                         [currentBidPrice |-> bid, itemEndDate |-> end])
        r2 == ListingRow(MARKETPLACES[1], Summary("v1|222"), EmptyJson)
    IN  mark_ended(upsert_item(upsert_item(NoCon, r1), r2), s)

InitWatch ==
    /\ market = IngestMarket
    /\ AuxIdle
    /\ clock = 0
    /\ \E bid \in {None} \cup {Some(m) : m \in Money},
          end \in {Some(x) : x \in EndStrings \ {BadTime}},
          s \in {{}, {"v1|111", "v1|222"}} :
            /\ items = Listed(bid, end, s).items
            /\ price_history = Listed(bid, end, s).price_history
    /\ watchlist = {}
    /\ con = NoCon
    /\ pc = "idle"
    /\ queries = <<>>
    /\ pending = {}
    /\ seen = {}
    /\ rows = {}
    /\ notified = Zero
    /\ passlog = EmptyLog
    /\ outcome = "none"
    /\ npass = 0
    /\ upserts = Zero
    /\ conUpserts = Zero
    /\ done = <<>>

NextWatch ==
    \/ Tick
    \/ Check
    \/ \E i \in ItemIds : AddToWatchlist(i)

SpecWatch == InitWatch /\ [][NextWatch]_vars

\* the watchlist with entries for listed and for unlisted item ids
NextUnlisted ==
    \/ Check
    \/ \E i \in ItemIds : AddToWatchlist(i)
    \/ \E i \in ItemIds : AddUnlisted(i)

SpecUnlisted == InitWatch /\ [][NextUnlisted]_vars

\* ingestion over a store whose two listings an earlier sweep has ended
InitReingest ==
    /\ market = IngestMarket
    /\ AuxIdle
    /\ clock = 0
    /\ LET c == Listed(None, Some(Iso(WINDOW_MINUTES + 1)), {})
       IN  items = c.items /\ price_history = c.price_history
    /\ watchlist = {}
    /\ con = NoCon
    /\ pc = "idle"
    /\ queries = <<>>
    /\ pending = {}
    /\ seen = {}
    /\ rows = {}
    /\ notified = Zero
    /\ passlog = EmptyLog
    /\ outcome = "none"
    /\ npass = 0
    /\ upserts = Zero
    /\ conUpserts = Zero
    /\ done = <<>>

SpecReingest == InitReingest /\ [][NextIngest]_vars

\* the provider answers every detail fetch with status 200 and the auctions
\* have closed: no currentBidPrice
ClosedReply(id) ==
    [kind |-> "ok", json |-> [currentBidPrice |-> None,
                              itemEndDate |-> market[id].itemEndDate]]

\* the loop body for an entry when nothing fails
CheckAnswered ==
    \E e \in rows : \E d \in {ClosedReply(e.item_id), NoDetail} : CheckEntry(e, d, "none")

\* watch-check passes that keep being run to their commit
NextLive ==
    \/ Tick
    \/ \E i \in ItemIds : AddToWatchlist(i)
    \/ CheckBegin
    \/ CheckAnswered
    \/ CheckCommit

SpecLive ==
    /\ InitWatch
    /\ [][NextLive]_vars
    /\ WF_vars(CheckBegin) /\ WF_vars(CheckAnswered) /\ WF_vars(CheckCommit)

\* two browser sessions on a database that holds two listings and a WATCHING
\* entry for the auction
InitSessions ==
    /\ market = IngestMarket
    /\ AuxIdle
    /\ clock = 0
    /\ LET c == Listed(Some(CHOOSE m \in Money : TRUE), Some(Iso(1)), {"v1|111", "v1|222"})
       IN  /\ items = c.items
           /\ price_history = c.price_history
           /\ watchlist = add_to_watchlist({}, "v1|111", MARKETPLACES[1], Some(Iso(1)))
    /\ con = NoCon
    /\ pc = "idle"
    /\ queries = <<>>
    /\ pending = {}
    /\ seen = {}
    /\ rows = {}
    /\ notified = Zero
    /\ passlog = EmptyLog
    /\ outcome = "none"
    /\ npass = 0
    /\ upserts = Zero
    /\ conUpserts = Zero
    /\ done = <<>>

NextSessions ==
    \/ Fetch
    \/ Check
    \/ Switch

SpecSessions == InitSessions /\ [][NextSessions]_vars

\* ------------------------------------------------------------ claims
\* the rows of an item id
RowsOf(table, id) == {r \in table : r.item_id = id}

\* the step on which a pass commits
FetchCommitted == pc = "commit" /\ pc' = "idle" /\ outcome' = "committed"
CheckCommitted == pc = "check" /\ pc' = "idle" /\ outcome' = "committed"

\* C5: when an ingestion pass commits, every Listing that was ACTIVE before the
\* pass and whose id is not in the pass's seen set is ENDED, with the date_found
\* it had before the pass.
C5_SweepEndsUnseen ==
    [][FetchCommitted =>
        \A r \in items :
            (r.status = "ACTIVE" /\ r.item_id \notin seen) =>
                /\ RowsOf(items', r.item_id) # {}
                /\ \A r2 \in RowsOf(items', r.item_id) :
                      r2.status = "ENDED" /\ r2.date_found = r.date_found]_vars

\* a pass about to commit that did not see a Listing found ACTIVE by an earlier
\* pass, at a later time
C5_Witness ==
    /\ pc = "commit"
    /\ \E r \in items :
          /\ r.status = "ACTIVE"
          /\ r.item_id \notin seen
          /\ seen # {}
          /\ r.date_found < clock

\* at most one Listing row per item id, committed and in the connection's view
C6_OneRowPerId ==
    \A i \in ItemIds :
        Cardinality(RowsOf(items, i)) <= 1 /\ Cardinality(RowsOf(con.items, i)) <= 1

\* an upsert leaves the one row it was given, with the date_found the id had
C6_UpsertStep ==
    \A i \in ItemIds :
        (pc = "items" /\ pc' # "idle" /\ conUpserts'[i] = conUpserts[i] + 1) =>
            \E d \in DetailReplies(i) \cup {NoDetail} :
                LET given == ListingRow(queries[1].mp, Summary(i), d.json)
                    kept == IF HasRow(con.items, i)
                            THEN RowOf(con.items, i).date_found
                            ELSE given.date_found
                IN  /\ d.kind = passlog'[i].detail
                    /\ RowsOf(con'.items, i) = {[given EXCEPT !.date_found = kept]}

\* no step changes the date_found of a row
C6_DateFoundKept ==
    /\ \A r \in items : \A r2 \in RowsOf(items', r.item_id) :
            r2.date_found = r.date_found
    /\ pc' # "idle" =>
            \A r \in con.items : \A r2 \in RowsOf(con'.items, r.item_id) :
                r2.date_found = r.date_found

\* C6: the store holds one Listing row per item id; an upsert leaves the row it
\* was given, except for date_found, which stays the one the first upsert of the
\* id wrote; no later upsert or sweep changes a row's date_found.
C6_UpsertKeepsOneRow ==
    /\ []C6_OneRowPerId
    /\ [][C6_UpsertStep]_vars
    /\ [][C6_DateFoundKept]_vars

\* a Listing upserted again, later and with another bid than the first time
C6_Witness ==
    \E r \in con.items :
        /\ conUpserts[r.item_id] >= 2
        /\ r.date_found < r.date_updated
        /\ r.current_bid_value # None
        /\ \E p \in con.price_history :
              p.item_id = r.item_id /\ p.current_bid_value = None

\* C7 as claimed: n upsert_item calls for an item id leave n PriceObservation rows
\* for it (each call adds one row and replaces none).
C7_OneObservationPerUpsert ==
    \A i \in ItemIds :
        /\ Cardinality(RowsOf(price_history, i)) = upserts[i]
        /\ pc \in FetchStates => Cardinality(RowsOf(con.price_history, i)) = conUpserts[i]

\* the key of price_history
SameKey(p, q) == p.item_id = q.item_id /\ p.observed_at = q.observed_at

\* one row per key; at least one and at most n[i] rows for an id upserted n[i] times
C7_History(table, n) ==
    /\ \A p, q \in table : SameKey(p, q) => p = q
    /\ \A i \in ItemIds :
          /\ Cardinality(RowsOf(table, i)) <= n[i]
          /\ n[i] > 0 => RowsOf(table, i) # {}

\* an upsert writes the row of its key and leaves the rows of other keys
C7_UpsertStep ==
    \A i \in ItemIds :
        (pc = "items" /\ pc' # "idle" /\ conUpserts'[i] = conUpserts[i] + 1) =>
            LET row == RowOf(con'.items, i)
                obs == [item_id |-> i, observed_at |-> utc_now,
                        price_value |-> row.price_value, price_ccy |-> row.price_ccy,
                        current_bid_value |-> row.current_bid_value,
                        current_bid_ccy |-> row.current_bid_ccy]
            IN  con'.price_history =
                    {p \in con.price_history : ~SameKey(p, obs)} \cup {obs}

\* no step removes a key
C7_KeysKept ==
    /\ \A p \in price_history : \E q \in price_history' : SameKey(p, q)
    /\ pc' # "idle" =>
            \A p \in con.price_history : \E q \in con'.price_history : SameKey(p, q)

\* C7, amended: an upsert_item call leaves one PriceObservation row keyed by its
\* item id and utc_now(), carrying the values of the Listing row it wrote, and
\* leaves every row with another key as it was; no row's key ever leaves the
\* table; n upserts of an item id leave at least one and at most n rows for it,
\* one per key.
C7_ObservationPerKey ==
    /\ [](/\ C7_History(price_history, upserts)
          /\ pc \in FetchStates => C7_History(con.price_history, conUpserts))
    /\ [][C7_UpsertStep]_vars
    /\ [][C7_KeysKept]_vars

\* an item upserted twice at one clock reading, with and without a bid, and
\* once more at another
C7_Witness ==
    \E i \in ItemIds :
        /\ conUpserts[i] = 3
        /\ Cardinality(RowsOf(con.price_history, i)) = 2
        /\ \E p \in con.price_history : p.item_id = i /\ p.current_bid_value # None

\* C8: after k committed ingestion passes that each saw the same set of items,
\* every such item has one Listing row and k PriceObservation rows.
C8_OneObservationPerPass ==
    (Len(done) >= 1 /\ \A k \in 1..Len(done) : done[k] = done[1]) =>
        \A i \in done[1] :
            /\ Cardinality(RowsOf(items, i)) = 1
            /\ Cardinality(RowsOf(price_history, i)) = Len(done)

\* the step that takes item i off the search results with a detail reply of kinds
DetailFailed(i, kinds) ==
    pc = "items" /\ i \in pending /\ i \notin pending' /\ passlog'[i].detail \in kinds

\* the pass goes on, with i upserted from its search record
FromSearchRecord(i) ==
    /\ pc' \in FetchStates
    /\ i \in seen'
    /\ \E r \in con'.items :
          /\ r.item_id = i
          /\ r.price_value = market[i].price.value
          /\ r.current_bid_value = None
          /\ r.end_time = None

\* C10: the step of an ingestion pass on which an auction item's detail fetch
\* fails (a non-success status, a timeout or a transport error) leaves the pass
\* running, with the item upserted from its search record: the listing price, no
\* bid, no end time.
C10_DetailFailureKeepsPass ==
    [][\A i \in ItemIds :
          DetailFailed(i, {"raise", "non200"}) => FromSearchRecord(i)]_vars

\* C1: notify_ended is invoked at most once for a WatchEntry, over any sequence
\* of watch-check passes, those that are aborted before their commit included
\* (notified counts the invocations whether or not the pass commits).
C1_NotifyAtMostOnce == \A i \in ItemIds : notified[i] <= 1

\* every ENDED entry of before is in after, ENDED, with the same final price
Terminal(before, after) ==
    \A w \in before :
        w.status = "ENDED" =>
            /\ RowsOf(after, w.item_id) # {}
            /\ \A x \in RowsOf(after, w.item_id) :
                  /\ x.status = "ENDED"
                  /\ x.final_price = w.final_price
                  /\ x.final_currency = w.final_currency

\* C2: a WatchEntry that is ENDED stays ENDED, with the final_price and
\* final_currency it got: in the committed watchlist over every step, and in the
\* open connection's view over every step that keeps the transaction.
C2_EndedIsTerminal ==
    [][/\ Terminal(watchlist, watchlist')
       /\ (pc # "idle" /\ pc' # "idle") => Terminal(con.watchlist, con'.watchlist)]_vars

\* an entry ENDED with a price, the Watch action taken again on its listing
\* after a later ingestion pass, and a later watch-check pass running
C2_Witness ==
    /\ pc = "check"
    /\ Len(done) >= 2
    /\ \E w \in watchlist :
          /\ w.status = "ENDED"
          /\ w.final_price # None
          /\ w.last_checked # None
          /\ w.last_checked[1] < clock

\* the Listing of i is stored, ENDED or with a bid
Closed(table, i) ==
    /\ HasRow(table, i)
    /\ RowOf(table, i).status = "ENDED" \/ RowOf(table, i).current_bid_value # None

\* C3: when a watch-check pass commits, every entry it polled whose detail had no
\* current bid and whose Listing is stored with status ENDED or with a bid is
\* ENDED, with the Listing's current_bid_value/current_bid_ccy as final
\* price/currency, and notify_ended was invoked once for it in the pass.
C3_ClosureEndsEntry ==
    [][CheckCommitted =>
        \A i \in ItemIds :
            (passlog[i].detail \in {"nobid", "non200"} /\ Closed(items, i)) =>
                /\ passlog[i].notices = 1
                /\ RowsOf(watchlist', i) # {}
                /\ \A w \in RowsOf(watchlist', i) :
                      /\ w.status = "ENDED"
                      /\ w.final_price = RowOf(items, i).current_bid_value
                      /\ w.final_currency = RowOf(items, i).current_bid_ccy]_vars

\* a pass about to commit that met the closure of an auction with a bid of 610 USD
C3_Witness ==
    /\ pc = "check"
    /\ rows = {}
    /\ \E i \in ItemIds :
          /\ passlog[i].detail = "nobid"
          /\ Closed(items, i)
          /\ RowOf(items, i).current_bid_value = Some(610)
          /\ \E w \in watchlist : w.item_id = i /\ w.status = "WATCHING"

\* marketplace and end_time arguments of add_to_watchlist
AddArguments ==
    [marketplace : {"EBAY_US", "EBAY_DE"},
     end_time : {None} \cup {Some(e) : e \in EndStrings}]

\* C9: add_to_watchlist for an item id that has a WatchEntry, whatever the
\* marketplace and end_time given, leaves the watchlist as it is.
C9_AddIsIdempotent ==
    \A w \in watchlist : \A a \in AddArguments :
        add_to_watchlist(watchlist, w.item_id, a.marketplace, a.end_time) = watchlist

\* an ENDED entry, at a later time than it was added, whose listing now carries
\* another end_time than the entry
C9_Witness ==
    \E w \in watchlist :
        /\ w.status = "ENDED"
        /\ w.added_at < clock
        /\ HasRow(items, w.item_id)
        /\ RowOf(items, w.item_id).end_time # w.end_time

\* C4: when a watch-check pass commits, every entry whose end_time was
\* parseable and later than now + the lookahead window when its turn came had
\* no detail fetched, is as it was before the pass, and had no notification.
C4_FarEntryUntouched ==
    [][CheckCommitted =>
        \A w \in watchlist :
            (w.status = "WATCHING" /\ passlog[w.item_id].far) =>
                /\ passlog[w.item_id].detail = "nofetch"
                /\ passlog[w.item_id].notices = 0
                /\ RowsOf(watchlist', w.item_id) = {w}]_vars

\* a pass about to commit that skipped one entry and ended another
C4_Witness ==
    /\ pc = "check"
    /\ rows = {}
    /\ \E i, j \in ItemIds :
          /\ passlog[i].far
          /\ passlog[j].notices = 1
          /\ \E w \in con.watchlist : w.item_id = j /\ w.status = "ENDED"

\* the kinds of passlog that record an exception in the loop body of
\* check_watchlist
Raised == {"gate_raise", "raise", "read_raise", "write_raise", "notify_raise"}

\* C11: when a watch-check pass commits, every entry whose check raised (in the
\* window test, the detail fetch, the store read, the store write or the notify
\* call) is WATCHING, and every WATCHING entry selected for the pass was checked.
C11_RaisedEntryStaysWatching ==
    [][CheckCommitted =>
        /\ \A i \in ItemIds :
              passlog[i].detail \in Raised =>
                  \E w \in watchlist' : w.item_id = i /\ w.status = "WATCHING"
        /\ \A w \in watchlist :
              w.status = "WATCHING" => passlog[w.item_id].detail # "unseen"]_vars

\* a Listing the connection's view ends on this step
EndsListing ==
    \E r \in con.items : \E r2 \in RowsOf(con'.items, r.item_id) :
        r.status = "ACTIVE" /\ r2.status = "ENDED"

\* C12: in an ingestion pass, Listings are ended and the sweep runs only on the
\* step from "sweep", taken when no (marketplace, term) search and no item is
\* left; after it the pass makes no upsert and no second sweep; and a pass that
\* does not reach its commit leaves the committed Listings as they were.
C12_SweepAfterAllUpserts ==
    [][/\ (pc \in FetchStates /\ pc' \in FetchStates /\ EndsListing) => pc = "sweep"
       /\ pc = "sweep" =>
              /\ queries = <<>> /\ pending = {}
              /\ pc' \in {"sweep", "commit", "idle"}
              /\ pc' = "sweep" => con' = con
              /\ pc' = "commit" => conUpserts' = conUpserts
       /\ pc = "commit" => pc' \in {"commit", "idle"} /\ (pc' = "commit" => con' = con)
       /\ (pc \in FetchStates /\ pc' = "idle" /\ ~FetchCommitted) => items' = items]_vars

\* a pass that has upserted a listing twice and swept: about to commit the end of
\* a Listing it did not see
C12_Witness ==
    /\ pc = "commit"
    /\ \E i \in ItemIds : conUpserts[i] >= upserts[i] + 2
    /\ \E r \in items : \E r2 \in RowsOf(con.items, r.item_id) :
          r.status = "ACTIVE" /\ r2.status = "ENDED"

\* C15: a failed push or e-mail while an entry is being closed does not
\* propagate: the entry's check does not raise, the entry is ENDED with the
\* stored bid as final price in the pass's transaction and, when the pass
\* commits, in the store; the pass goes on and, at its commit, has checked every
\* entry that is still WATCHING.
C15_DeliveryFailureSwallowed ==
    [][/\ \A i \in ItemIds :
            (pc = "check" /\ ~passlog[i].undelivered /\ passlog'[i].undelivered) =>
                /\ pc' = "check"
                /\ passlog'[i].detail \notin Raised
                /\ \E r \in con.items, w \in con'.watchlist :
                      /\ r.item_id = i /\ w.item_id = i
                      /\ w.status = "ENDED"
                      /\ w.final_price = r.current_bid_value
                      /\ w.final_currency = r.current_bid_ccy
                /\ rows' = {e \in rows : e.item_id # i}
       /\ CheckCommitted =>
            /\ \A i \in ItemIds : passlog[i].undelivered =>
                  \E r \in items, w \in watchlist' :
                      /\ r.item_id = i /\ w.item_id = i
                      /\ w.status = "ENDED"
                      /\ w.final_price = r.current_bid_value
                      /\ w.final_currency = r.current_bid_ccy
            /\ \A w \in watchlist' :
                  w.status = "WATCHING" => passlog[w.item_id].detail # "unseen"]_vars

\* a pass about to commit in which the notification of a closed entry with a
\* final price could not be delivered and another entry was checked as well
C15_Witness ==
    /\ pc = "check" /\ rows = {}
    /\ \E i, j \in ItemIds :
          /\ i # j
          /\ passlog[i].undelivered
          /\ passlog[j].detail # "unseen"
          /\ \E w \in con.watchlist :
                w.item_id = i /\ w.status = "ENDED" /\ w.final_price # None

\* C16: at most one ingestion pass and at most one watch-check pass are in
\* progress on the store at any time.
C16_OnePassOfAKind ==
    /\ ~(pc \in FetchStates /\ peer.pc \in FetchStates)
    /\ ~(pc = "check" /\ peer.pc = "check")

\* term occurs in title at some position, letters compared without regard to case
C17_Occurs(term, title) ==
    \E k \in 0..(Len(title) - Len(term)) :
        \A i \in 1..Len(term) :
            \/ title[k + i] = term[i]
            \/ \E n \in 1..Len(UpperCase) :
                  {title[k + i], term[i]} = {UpperCase[n], LowerCase[n]}

\* C17: relevant(title) is true iff, without regard to case, no deny term occurs
\* in the title and at least one allow term does; a title with an allow and a
\* deny term, one with no allow term and the empty title are rejected.
C17_RelevantIffAllowedNotDenied ==
    rel.state = "returned" =>
        (rel.result <=>
            /\ \A k \in 1..Len(DENY) : ~C17_Occurs(DENY[k], rel.title)
            /\ \E k \in 1..Len(ALLOW) : C17_Occurs(ALLOW[k], rel.title))

\* a title rejected for a deny term that only the words together make ("bit SET")
\* although an allow term in capitals (LOK) is in it
C17_Witness ==
    /\ rel.state = "returned"
    /\ ~rel.result
    /\ C17_Occurs(<<"b", "i", "t", " ", "s", "e", "t">>, rel.title)
    /\ C17_Occurs(<<"l", "o", "k">>, rel.title)

\* C18: an entry is closed, and its notification sent, only on a confirmed end:
\* when the live detail fetch of a watched auction answers with a non-success
\* status and the stored Listing is still ACTIVE, the entry stays WATCHING and
\* no notification is sent.
C18_FailedDetailKeepsWatching ==
    [][\A i \in ItemIds :
          (/\ pc = "check"
           /\ passlog[i].detail = "unseen" /\ passlog'[i].detail = "non200"
           /\ \E r \in con.items : r.item_id = i /\ r.status = "ACTIVE") =>
              /\ \E w \in con'.watchlist : w.item_id = i /\ w.status = "WATCHING"
              /\ notified'[i] = notified[i]]_vars

\* the check of entry i is the step being taken and it met the detail kind
Checked(i, kind) ==
    pc = "check" /\ passlog[i].detail = "unseen" /\ passlog'[i].detail = kind

\* C19: the check of an entry that is not skipped and whose live detail carries
\* a current bid changes the entry's last_checked and nothing else in the
\* store: the entry stays WATCHING with no final price or currency, and no
\* notification is sent.
C19_BidOnlyStampsCheck ==
    [][\A i \in ItemIds : Checked(i, "bid") =>
          /\ \E w \in con.watchlist :
                /\ w.item_id = i
                /\ con'.watchlist = (con.watchlist \ {w})
                       \cup {[w EXCEPT !.last_checked = Some(clock)]}
                /\ w.status = "WATCHING"
                /\ w.final_price = None /\ w.final_currency = None
          /\ con'.items = con.items
          /\ con'.price_history = con.price_history
          /\ notified' = notified]_vars

\* a pass has just checked an entry with a live bid, after the clock moved, with
\* another entry in the watchlist
C19_Witness ==
    /\ pc = "check"
    /\ \E w \in con.watchlist, v \in con.watchlist :
          /\ passlog[w.item_id].detail = "bid"
          /\ w.status = "WATCHING"
          /\ w.last_checked = Some(clock)
          /\ clock > 0
          /\ v.item_id # w.item_id
          /\ v.last_checked # w.last_checked

\* C20: the check of an entry that is not skipped, whose live detail carries no
\* current bid and whose item id has no Listing row sets the entry ENDED with no
\* final price or currency and sends no notification.
C20_UnlistedEntryEnds ==
    [][\A i \in ItemIds :
          ((Checked(i, "nobid") \/ Checked(i, "non200")) /\ ~HasRow(con.items, i)) =>
              /\ \E w \in con.watchlist :
                    /\ w.item_id = i
                    /\ con'.watchlist = (con.watchlist \ {w})
                           \cup {[w EXCEPT !.status = "ENDED",
                                           !.last_checked = Some(clock)]}
                    /\ w.final_price = None /\ w.final_currency = None
              /\ notified' = notified]_vars

\* a pass about to commit that closed an entry without a Listing row and
\* checked an entry with one
C20_Witness ==
    /\ pc = "check" /\ rows = {}
    /\ \E w \in con.watchlist, v \in con.watchlist :
          /\ ~HasRow(con.items, w.item_id)
          /\ passlog[w.item_id].detail = "nobid"
          /\ w.status = "ENDED" /\ w.final_price = None
          /\ notified[w.item_id] = 0
          /\ HasRow(con.items, v.item_id)
          /\ passlog[v.item_id].detail # "unseen"

\* the entry of item i is WATCHING and carries an end time that has passed
C21_Due(i) ==
    \E w \in watchlist :
        /\ w.item_id = i /\ w.status = "WATCHING"
        /\ w.end_time # None /\ w.end_time[1].parseable /\ w.end_time[1].aware
        /\ w.end_time[1].t <= clock

\* C21: with watch-check passes run again and again and the provider answering,
\* every WATCHING entry whose end time has passed and whose live detail carries
\* no current bid eventually is ENDED.
C21_ClosedEntryEventuallyEnded ==
    \A i \in ItemIds :
        C21_Due(i) ~> (\E w \in watchlist : w.item_id = i /\ w.status = "ENDED")

\* the step is the Watch button's handler: the only step that leaves no pass
\* running before and after and ends by an exception
WatchPressed == pc = "idle" /\ pc' = "idle" /\ outcome # "aborted" /\ outcome' = "aborted"

\* C22: the Watch action on a listing that has no entry commits a WATCHING
\* entry for its item id with the listing's marketplace and end_time (stated for
\* an empty watchlist, where whichever listing was chosen has no entry).
C22_WatchCommitsEntry ==
    [][(WatchPressed /\ watchlist = {}) =>
          \E r \in items : \E w \in watchlist' :
              /\ w.item_id = r.item_id
              /\ w.status = "WATCHING"
              /\ w.marketplace = r.marketplace
              /\ w.end_time = r.end_time]_vars

\* C23: when an ingestion pass commits with seen set S, a Listing of the store
\* is ACTIVE exactly if its id is in S; a Listing that was ENDED before the pass
\* and is in S is ACTIVE afterwards, with the date_found it had.
C23_ActiveIffSeen ==
    [][FetchCommitted =>
          /\ \A r \in items' : r.status = "ACTIVE" <=> r.item_id \in seen
          /\ \A r \in items :
                (r.status = "ENDED" /\ r.item_id \in seen) =>
                    \E r2 \in items' :
                        /\ r2.item_id = r.item_id
                        /\ r2.status = "ACTIVE"
                        /\ r2.date_found = r.date_found]_vars

\* a pass about to commit, after the clock moved, that found again one of two
\* ENDED listings and not the other
C23_Witness ==
    /\ pc = "commit"
    /\ clock > 0
    /\ \E r \in items, q \in items :
          /\ r.status = "ENDED" /\ r.item_id \in seen
          /\ q.status = "ENDED" /\ q.item_id \notin seen
          /\ \E r2 \in con.items :
                r2.item_id = r.item_id /\ r2.status = "ACTIVE" /\ r2.date_updated > r.date_found

\* C24: no step of an ingestion pass, its commit included, changes the
\* watchlist, and no step of a watch-check pass, its commit included, changes
\* items or price_history: a Listing keeps its status when its entry is ENDED.
C24_PassesKeepToTheirTables ==
    [][/\ (pc \in FetchStates \/ pc' \in FetchStates) =>
            /\ watchlist' = watchlist
            /\ (pc \in FetchStates /\ pc' \in FetchStates) =>
                  con'.watchlist = con.watchlist
            /\ pc \notin FetchStates => con'.watchlist = watchlist
       /\ (pc = "check" \/ pc' = "check") =>
            /\ items' = items /\ price_history' = price_history
            /\ (pc = "check" /\ pc' = "check") =>
                  con'.items = con.items /\ con'.price_history = con.price_history
            /\ pc # "check" =>
                  con'.items = items /\ con'.price_history = price_history]_vars

\* an ingestion pass about to commit changes to items over a store in which an
\* earlier watch check ended an entry, with a final price, whose Listing stayed
\* ACTIVE
C24_Witness ==
    /\ pc = "commit"
    /\ con.items # items
    /\ \E w \in watchlist, r \in items :
          /\ w.item_id = r.item_id
          /\ w.status = "ENDED" /\ w.final_price # None
          /\ r.status = "ACTIVE"

\* usd is what the amount v in currency c is worth: absent when the amount or the
\* currency is missing or the code, in capitals, has no rate; else the hundredth
\* of a dollar nearest to v / rate
C14_Worth(v, c, usd) ==
    IF v = None \/ c = None
    THEN usd = None
    ELSE LET rate == IF upper(c[1]) = USD THEN 100
                     ELSE IF upper(c[1]) = EUR THEN 92
                     ELSE IF upper(c[1]) = GBP THEN 78
                     ELSE IF upper(c[1]) = AUD THEN 148 ELSE 0
         IN  IF rate = 0
             THEN usd = None
             ELSE /\ usd # None
                  /\ 2 * (usd[1] * rate - v[1] * 10000) <= rate
                  /\ 2 * (v[1] * 10000 - usd[1] * rate) <= rate

C14_Rows(table) ==
    \A r \in table : /\ C14_Worth(r.price_value, r.price_ccy, r.price_usd)
                     /\ C14_Worth(r.ship_value, r.ship_ccy, r.ship_usd)

\* C14: every Listing's price_usd is to_usd(price_value, price_ccy) and its
\* ship_usd is to_usd(ship_value, ship_ccy); the derived field is absent, never
\* zero, when the native amount or currency is missing or the code has no rate.
C14_DerivedUsd == C14_Rows(items) /\ C14_Rows(con.items)

\* committed Listings with a converted price (500 eur), a price in a currency
\* without a rate, a shipping cost without currency and one without amount
C14_Witness ==
    \E r \in items, q \in items :
        /\ r.price_ccy = Some(Eur) /\ r.price_usd = Some(54348)
        /\ r.ship_value # None /\ r.ship_ccy = None /\ r.ship_usd = None
        /\ q.price_ccy = Some(CHF) /\ q.price_usd = None
        /\ q.ship_value = None /\ q.ship_ccy # None /\ q.ship_usd = None

\* what is true while paginate_search runs: the k-th request asks offset
\* (k - 1) * 100; a request is only made with fewer than max_results items
\* gathered and, after the first, only when the last page was not empty and the
\* offset is below the total it reported; the list returned has at most
\* max_results items
C13_Safe ==
    /\ \A k \in 1..Len(pg.asked) : pg.asked[k] = (k - 1) * PAGE_LIMIT
    /\ pg.state = "request" =>
          /\ pg.results < pg.max_results
          /\ Len(pg.asked) > 1 => pg.page > 0 /\ pg.offset < pg.total
    /\ pg.state = "returned" =>
          /\ pg.returned <= pg.max_results
          /\ pg.returned <= pg.results
          /\ \/ pg.results >= pg.max_results
             \/ pg.offset >= pg.total
             \/ pg.page = 0

\* C13: paginate_search ends (returns or raises) for every sequence of server
\* answers; it asks offsets 0, 100, 200, ...; it stops as soon as max_results
\* items are gathered, the next offset reaches the reported total, or a page is
\* empty; it returns at most max_results items.
C13_PaginateTerminates ==
    []C13_Safe /\ <>(pg.state \in {"returned", "raised"})

\* a call that made three requests and cut the list to max_results
C13_Witness ==
    /\ pg.state = "returned"
    /\ Len(pg.asked) >= 3
    /\ pg.results > pg.max_results
    /\ pg.returned = pg.max_results

====
